---- MODULE Spec2Model ----
(***************************************************************************)
(* A model of processflows.py: the chunk / map / reduce pass over the flow *)
(* log and the lookup table, and the tag reconciliation that follows.      *)
(*                                                                         *)
(* A Python str is a sequence of one-character strings, so that strip,     *)
(* split, lower and int are computed character by character.  A            *)
(* defaultdict is a record [factory, items]: factory is the name of its    *)
(* default_factory ("int" or "list") and items is the function from the    *)
(* keys it holds to their values.                                          *)
(***************************************************************************)
EXTENDS Integers, Sequences, FiniteSets, TLC

(***************************************************************************)
(* Bounds of the model.                                                    *)
(***************************************************************************)
MaxFlowLines == 3
MaxLookupLines == 2
MaxChunkSize == 2

(***************************************************************************)
(* Python str and int primitives.                                          *)
(***************************************************************************)
Whitespace == {" ", "\n", "\t", "\r"}

Digits == <<"0", "1", "2", "3", "4", "5", "6", "7", "8", "9">>

UpperCase == <<"A", "B", "C", "D", "E", "F", "G", "H", "I", "J", "K", "L", "M",
               "N", "O", "P", "Q", "R", "S", "T", "U", "V", "W", "X", "Y", "Z">>

LowerCase == <<"a", "b", "c", "d", "e", "f", "g", "h", "i", "j", "k", "l", "m",
               "n", "o", "p", "q", "r", "s", "t", "u", "v", "w", "x", "y", "z">>

Range(s) == {s[i] : i \in 1..Len(s)}

RECURSIVE lstrip(_)
lstrip(s) ==
    IF s # << >> /\ Head(s) \in Whitespace THEN lstrip(Tail(s)) ELSE s

RECURSIVE rstrip(_)
rstrip(s) ==
    IF s # << >> /\ s[Len(s)] \in Whitespace
    THEN rstrip(SubSeq(s, 1, Len(s) - 1))
    ELSE s

strip(s) == rstrip(lstrip(s))

\* str.split(sep) with a one-character separator: every occurrence of sep
\* ends a field, so n separators give n + 1 fields, empty ones included.
RECURSIVE split(_, _)
split(s, sep) ==
    IF sep \notin Range(s)
    THEN <<s>>
    ELSE LET i == CHOOSE k \in 1..Len(s) :
                      s[k] = sep /\ \A m \in 1..(k - 1) : s[m] # sep
         IN  <<SubSeq(s, 1, i - 1)>> \o split(SubSeq(s, i + 1, Len(s)), sep)

lower(s) ==
    [i \in 1..Len(s) |->
        IF s[i] \in Range(UpperCase)
        THEN LowerCase[CHOOSE k \in 1..26 : UpperCase[k] = s[i]]
        ELSE s[i]]

\* int(s) for a decimal literal; is_int(s) is FALSE where int raises ValueError.
is_int(s) == s # << >> /\ \A i \in 1..Len(s) : s[i] \in Range(Digits)

RECURSIVE int(_)
int(s) ==
    IF s = << >>
    THEN 0
    ELSE 10 * int(SubSeq(s, 1, Len(s) - 1))
         + ((CHOOSE k \in 1..10 : Digits[k] = s[Len(s)]) - 1)

(***************************************************************************)
(* constants.int2protocolmap: protocol number -> protocol name.            *)
(***************************************************************************)
int2protocolmap ==
    (1 :> <<"i", "c", "m", "p">>) @@ (6 :> <<"t", "c", "p">>)
        @@ (17 :> <<"u", "d", "p">>)

(***************************************************************************)
(* defaultdict.                                                            *)
(***************************************************************************)
defaultdict(factory) == [factory |-> factory, items |-> << >>]

None == [factory |-> "None", items |-> << >>]

\* d[key] of a defaultdict read without inserting: the value held, else
\* what default_factory() builds.
default_value(d) == IF d.factory = "int" THEN 0 ELSE << >>

getitem(d, key) ==
    IF key \in DOMAIN d.items THEN d.items[key] ELSE default_value(d)

\* dict.get(key, default) on the items.
get(d, key, default) ==
    IF key \in DOMAIN d.items THEN d.items[key] ELSE default

\* d[key] = value
setitem(d, key, value) ==
    [d EXCEPT !.items =
        [k \in DOMAIN d.items \cup {key} |->
            IF k = key THEN value ELSE d.items[k]]]

\* a + b as += computes it for the values of the two kinds of map.
add(d, a, b) == IF d.factory = "int" THEN a + b ELSE a \o b

(***************************************************************************)
(* What a call gives back: a value, or the exception it raised.            *)
(***************************************************************************)
Return(value) == [raised |-> "", value |-> value]

Raise(exception) == [raised |-> exception, value |-> None]

(***************************************************************************)
(* Utils.                                                                  *)
(***************************************************************************)
\* merge with left[key] = right[key] for its body: the last batch wins.
merge_overwrite(left, right) ==
    [left EXCEPT !.items =
        [key \in DOMAIN left.items \cup DOMAIN right.items |->
            IF key \in DOMAIN right.items
            THEN right.items[key]
            ELSE left.items[key]]]

\* merge with "for key in left": the keys only right holds are dropped.
merge_over_left_keys(left, right) ==
    [left EXCEPT !.items =
        [key \in DOMAIN left.items |->
            add(left, left.items[key], getitem([right EXCEPT !.factory = left.factory], key))]]

\* for key in right: left[key] += right[key]
merge(left, right) ==
    [left EXCEPT !.items =
        [key \in DOMAIN left.items \cup DOMAIN right.items |->
            IF key \in DOMAIN right.items
            THEN add(left, getitem(left, key), right.items[key])
            ELSE left.items[key]]]

\* range with its stop included.
RECURSIVE range_inclusive(_, _, _)
range_inclusive(start, stop, step) ==
    IF start > stop
    THEN << >>
    ELSE <<start>> \o range_inclusive(start + step, stop, step)

\* range(start, stop, step) for step > 0, as the sequence it iterates over.
RECURSIVE range(_, _, _)
range(start, stop, step) ==
    IF start >= stop THEN << >> ELSE <<start>> \o range(start + step, stop, step)

\* logs[start : stop - 1]
slice_short(logs, start, stop) ==
    SubSeq(logs, start + 1, (IF stop < Len(logs) THEN stop ELSE Len(logs)) - 1)

\* logs[start : stop] with 0 <= start: the end of a slice is clamped.
slice(logs, start, stop) ==
    SubSeq(logs, start + 1, IF stop < Len(logs) THEN stop ELSE Len(logs))

\* The batches the generator yields, in the order it yields them.
chunk(logs, chunk_size) ==
    LET indexes == range(0, Len(logs), chunk_size)
    IN  [n \in 1..Len(indexes) |->
            slice(logs, indexes[n], indexes[n] + chunk_size)]

\* sum(d.values())
RECURSIVE sum_over(_, _)
sum_over(items, keys) ==
    IF keys = {}
    THEN 0
    ELSE LET key == CHOOSE k \in keys : TRUE
         IN  items[key] + sum_over(items, keys \ {key})

sum_values(d) == sum_over(d.items, DOMAIN d.items)

\* if name := value: the walrus tests the truth of an int.
truthy(n) == n # 0

\* The inner loop with tag2count[tag] = occurences for its body.
RECURSIVE for_protocolport_assign(_, _, _, _)
for_protocolport_assign(array, tag, protocolportcount, acc) ==
    IF array = << >>
    THEN acc
    ELSE LET occurences == get(protocolportcount, Head(array), 0)
         IN  for_protocolport_assign(Tail(array), tag, protocolportcount,
                 IF truthy(occurences)
                 THEN [tag2count |-> setitem(acc.tag2count, tag, occurences),
                       tagged_entries |-> acc.tagged_entries + occurences]
                 ELSE acc)

\* The inner loop of get_tag_count over one tag's array; acc carries
\* tag2count and tagged_entries.
RECURSIVE for_protocolport(_, _, _, _)
for_protocolport(array, tag, protocolportcount, acc) ==
    IF array = << >>
    THEN acc
    ELSE LET occurences == get(protocolportcount, Head(array), 0)
         IN  for_protocolport(Tail(array), tag, protocolportcount,
                 IF truthy(occurences)
                 THEN [tag2count |->
                          setitem(acc.tag2count, tag,
                                  getitem(acc.tag2count, tag) + occurences),
                       tagged_entries |-> acc.tagged_entries + occurences]
                 ELSE acc)

\* The outer loop of get_tag_count over the tags still to visit.
RECURSIVE for_tag(_, _, _, _)
for_tag(tags, protocolportcount, tag2protocolport, acc) ==
    IF tags = {}
    THEN acc
    ELSE LET tag == CHOOSE t \in tags : TRUE
         IN  for_tag(tags \ {tag}, protocolportcount, tag2protocolport,
                 for_protocolport(tag2protocolport.items[tag], tag,
                                  protocolportcount, acc))

untagged == <<"u", "n", "t", "a", "g", "g", "e", "d">>

\* totalentries - tagged_entries, as get_tag_count computes it.
untagged_count(protocolportcount, tag2protocolport) ==
    sum_values(protocolportcount)
    - for_tag(DOMAIN tag2protocolport.items, protocolportcount,
              tag2protocolport,
              [tag2count |-> defaultdict("int"), tagged_entries |-> 0]
             ).tagged_entries

get_tag_count(protocolportcount, tag2protocolport) ==
    LET acc == for_tag(DOMAIN tag2protocolport.items, protocolportcount,
                       tag2protocolport,
                       [tag2count |-> defaultdict("int"), tagged_entries |-> 0])
        count == untagged_count(protocolportcount, tag2protocolport)
    IN  IF truthy(count)
        THEN setitem(acc.tag2count, untagged, count)
        ELSE acc.tag2count

(***************************************************************************)
(* File processing preferences.                                            *)
(***************************************************************************)
LogPrefs_process_line(line) == split(strip(line), " ")

\* The exception one line of a flow log raises in process_entry, "" if none:
\* the unpacking into 14 names, int(protocol), int2protocolmap[...].
LogPrefs_raises(line) ==
    LET processed_line == LogPrefs_process_line(line)
    IN  IF Len(processed_line) # 14 THEN "ValueError"
        ELSE IF ~is_int(processed_line[8]) THEN "ValueError"
        ELSE IF int(processed_line[8]) \notin DOMAIN int2protocolmap
             THEN "KeyError"
        ELSE ""

\* (dstport, int2protocolmap[int(protocol)])
LogPrefs_key(line) ==
    LET processed_line == LogPrefs_process_line(line)
    IN  <<processed_line[7], int2protocolmap[int(processed_line[8])]>>

RECURSIVE LogPrefs_for_line(_, _)
LogPrefs_for_line(lines, frequency) ==
    IF lines = << >>
    THEN Return(frequency)
    ELSE IF LogPrefs_raises(Head(lines)) # ""
    THEN Raise(LogPrefs_raises(Head(lines)))
    ELSE LET key == LogPrefs_key(Head(lines))
         IN  LogPrefs_for_line(Tail(lines),
                 setitem(frequency, key, getitem(frequency, key) + 1))

LogPrefs_process_entry(lines) == LogPrefs_for_line(lines, defaultdict("int"))

LookupPrefs_process_line(line) == split(strip(line), ",")

header_tag == <<"t", "a", "g">>

\* if tag.lower() != "tag"
LookupPrefs_keeps_any_case(tag) == lower(tag) # header_tag

\* if tag != "tag"
LookupPrefs_keeps(tag) == tag # header_tag

RECURSIVE LookupPrefs_for_line(_, _)
LookupPrefs_for_line(lines, frequency) ==
    IF lines = << >>
    THEN Return(frequency)
    ELSE LET processed_line == LookupPrefs_process_line(Head(lines))
         IN  IF Len(processed_line) # 3
             THEN Raise("ValueError")
             ELSE LET dest_port == processed_line[1]
                      protocol == processed_line[2]
                      tag == processed_line[3]
                  IN  LookupPrefs_for_line(Tail(lines),
                          IF LookupPrefs_keeps(tag)
                          THEN setitem(frequency, lower(tag),
                                   Append(getitem(frequency, lower(tag)),
                                          <<dest_port, protocol>>))
                          ELSE frequency)

LookupPrefs_process_entry(lines) ==
    LookupPrefs_for_line(lines, defaultdict("list"))

\* prefs.process_entry(selection) for the prefs object of the run.
process_entry(prefs, selection) ==
    IF prefs = "LogPrefs"
    THEN LogPrefs_process_entry(selection)
    ELSE LookupPrefs_process_entry(selection)

(***************************************************************************)
(* The files the run may read.  A flow record has 14 fields separated by   *)
(* single spaces; a lookup entry has 3 separated by commas.                *)
(***************************************************************************)
RECURSIVE join(_, _)
join(words, sep) ==
    IF Len(words) = 0 THEN << >>
    ELSE IF Len(words) = 1 THEN words[1]
    ELSE words[1] \o <<sep>> \o join(Tail(words), sep)

flow_record(dstport, protocol) ==
    join(<< <<"2">>, <<"1">>, <<"e">>, <<"a">>, <<"b">>, <<"9">>, dstport,
            protocol, <<"1">>, <<"1">>, <<"1">>, <<"2">>, <<"A">>, <<"O">> >>,
         " ") \o <<"\n">>

lookup_entry(fields) == join(fields, ",") \o <<"\n">>

port80 == <<"8", "0">>
port22 == <<"2", "2">>
tcp == <<"t", "c", "p">>
udp == <<"u", "d", "p">>
web == <<"w", "e", "b">>

\* A record over tcp, one over udp, and a record that lost its log_status.
FlowLines ==
    { flow_record(port80, <<"6">>),
      flow_record(port22, <<"1", "7">>),
      join(<< <<"2">>, <<"1">>, <<"e">>, <<"a">>, <<"b">>, <<"9">>, port80,
              <<"6">>, <<"1">>, <<"1">>, <<"1">>, <<"2">>, <<"A">> >>, " ")
          \o <<"\n">> }

header_line ==
    lookup_entry(<< <<"d", "s", "t", "p", "o", "r", "t">>,
                    <<"p", "r", "o", "t", "o", "c", "o", "l">>, header_tag >>)

\* The header, entries under the tags web, Web, Tag and untagged, and an
\* entry without its tag.
LookupLines ==
    { header_line,
      lookup_entry(<<port80, tcp, web>>),
      lookup_entry(<<port22, udp, <<"W", "e", "b">> >>),
      lookup_entry(<<port80, tcp, <<"T", "a", "g">> >>),
      lookup_entry(<<port80, tcp, untagged>>),
      lookup_entry(<<port80, tcp>>) }

SeqsUpTo(S, n) == UNION {[1..m -> S] : m \in 0..n}

\* What readlines() may return for the file the run opens.
readlines(prefs) ==
    IF prefs = "LogPrefs"
    THEN SeqsUpTo(FlowLines, MaxFlowLines)
    ELSE SeqsUpTo(LookupLines, MaxLookupLines)

(***************************************************************************)
(* MapReduce: the state of main and of the process_file call it awaits.    *)
(***************************************************************************)
VARIABLES
    chunk_size,               \* args.chunk_size
    prefs,                    \* class of the prefs of the current process_file
    pc,                       \* where the orchestrator is
    logs,                     \* process_file: f.readlines()
    routines,                 \* process_file: the futures, in submission order
    mapped_dictionaries,      \* process_file: what gather gave back
    consolidated_dictionary,  \* process_file: what reduce gave back
    processed_logs,           \* main
    lookup_table,             \* main
    tag2count,                \* main
    output,                   \* the files written under output/
    exception                 \* the exception propagating out of main, or ""

vars == <<chunk_size, prefs, pc, logs, routines, mapped_dictionaries,
          consolidated_dictionary, processed_logs, lookup_table, tag2count,
          output, exception>>

process_file_locals == <<logs, routines, mapped_dictionaries,
                         consolidated_dictionary>>

main_locals == <<processed_logs, lookup_table, tag2count>>

Init ==
    /\ chunk_size \in 1..MaxChunkSize
    /\ prefs = "LogPrefs"
    /\ pc = "open"
    /\ logs = << >>
    /\ routines = << >>
    /\ mapped_dictionaries = << >>
    /\ consolidated_dictionary = None
    /\ processed_logs = None
    /\ lookup_table = None
    /\ tag2count = None
    /\ output = << >>
    /\ exception = ""

(***************************************************************************)
(* The futures of the pool and what gather makes of them.                  *)
(***************************************************************************)
\* loop.run_in_executor(pool, partial(prefs.process_entry, selection))
run_in_executor(selection) ==
    [selection |-> selection, state |-> "pending", result |-> Return(None)]

finished(routine) == routine.state \in {"done", "failed"}

\* gather(*routines, return_exceptions=True): a failure is one more result.
gather_return_exceptions(futures) ==
    IF \A i \in DOMAIN futures : futures[i].state \in {"done", "failed"}
    THEN "return"
    ELSE "suspended"

\* asyncio.wait(routines, return_when=FIRST_COMPLETED) in the place of gather.
gather_first_completed(futures) ==
    IF \E i \in DOMAIN futures : futures[i].state = "failed" THEN "raise"
    ELSE IF \E i \in DOMAIN futures : futures[i].state = "done" THEN "return"
    ELSE "suspended"

\* Where await asyncio.gather(*routines) stands: it raises as soon as one of
\* its futures has failed, returns once every one of them is done, and
\* keeps the orchestrator suspended until then.
gather_outcome(futures) ==
    IF \E i \in DOMAIN futures : futures[i].state = "failed" THEN "raise"
    ELSE IF \A i \in DOMAIN futures : futures[i].state = "done" THEN "return"
    ELSE "suspended"

\* The list gather returns: the results in the order of its arguments.
gather(futures) == [i \in DOMAIN futures |-> futures[i].result.value]

\* functools.reduce(function, iterable) without an initial value, with
\* merge for the function.
RECURSIVE reduce_from(_, _)
reduce_from(accumulator, iterable) ==
    IF iterable = << >>
    THEN accumulator
    ELSE reduce_from(merge(accumulator, Head(iterable)), Tail(iterable))

reduce(iterable) ==
    IF iterable = << >>
    THEN Raise("TypeError")
    ELSE Return(reduce_from(Head(iterable), Tail(iterable)))

(***************************************************************************)
(* process_file.                                                           *)
(***************************************************************************)
\* open(filename) and f.readlines()
Open ==
    /\ pc = "open"
    /\ \E lines \in readlines(prefs) : logs' = lines
    /\ pc' = "submit"
    /\ UNCHANGED <<chunk_size, prefs, routines, mapped_dictionaries,
                   consolidated_dictionary, main_locals, output, exception>>

\* open(filename) of a file that is not there; the handler of __main__
\* prints its message and the run ends.
OpenMissing ==
    /\ pc = "open"
    /\ exception' = "FileNotFoundError"
    /\ pc' = "aborted"
    /\ UNCHANGED <<chunk_size, prefs, process_file_locals, main_locals,
                   output>>

\* One turn of the for loop over chunk(logs, chunk_size).
Submit ==
    /\ pc = "submit"
    /\ Len(routines) < Len(chunk(logs, chunk_size))
    /\ routines' = Append(routines,
           run_in_executor(chunk(logs, chunk_size)[Len(routines) + 1]))
    /\ UNCHANGED <<chunk_size, prefs, pc, logs, mapped_dictionaries,
                   consolidated_dictionary, main_locals, output, exception>>

\* The generator is exhausted: the orchestrator awaits gather.
Await ==
    /\ pc = "submit"
    /\ Len(routines) = Len(chunk(logs, chunk_size))
    /\ pc' = "gather"
    /\ UNCHANGED <<chunk_size, prefs, process_file_locals, main_locals,
                   output, exception>>

\* A worker process of the pool takes a queued job.
WorkerStart(i) ==
    /\ pc \in {"submit", "gather", "raising"}
    /\ routines[i].state = "pending"
    /\ routines' = [routines EXCEPT ![i].state = "running"]
    /\ UNCHANGED <<chunk_size, prefs, pc, logs, mapped_dictionaries,
                   consolidated_dictionary, main_locals, output, exception>>

\* The worker ran prefs.process_entry(selection) to its end.
WorkerFinish(i) ==
    /\ pc \in {"submit", "gather", "raising"}
    /\ routines[i].state = "running"
    /\ LET result == process_entry(prefs, routines[i].selection)
       IN  routines' = [routines EXCEPT
               ![i].state = IF result.raised = "" THEN "done" ELSE "failed",
               ![i].result = result]
    /\ UNCHANGED <<chunk_size, prefs, pc, logs, mapped_dictionaries,
                   consolidated_dictionary, main_locals, output, exception>>

\* mapped_dictionaries = await asyncio.gather(*routines)
GatherReturn ==
    /\ pc = "gather"
    /\ gather_outcome(routines) = "return"
    /\ mapped_dictionaries' = gather(routines)
    /\ pc' = "reduce"
    /\ UNCHANGED <<chunk_size, prefs, logs, routines, consolidated_dictionary,
                   main_locals, output, exception>>

\* await asyncio.gather(*routines) raises what a worker raised.
GatherRaise ==
    /\ pc = "gather"
    /\ gather_outcome(routines) = "raise"
    /\ \E i \in DOMAIN routines :
           /\ routines[i].state = "failed"
           /\ exception' = routines[i].result.raised
    /\ pc' = "raising"
    /\ UNCHANGED <<chunk_size, prefs, process_file_locals, main_locals,
                   output>>

\* consolidated_dictionary = reduce(merge, mapped_dictionaries)
Reduce ==
    /\ pc = "reduce"
    /\ reduce(mapped_dictionaries).raised = ""
    /\ consolidated_dictionary' = reduce(mapped_dictionaries).value
    /\ pc' = "return"
    /\ UNCHANGED <<chunk_size, prefs, logs, routines, mapped_dictionaries,
                   main_locals, output, exception>>

\* reduce(merge, mapped_dictionaries) raises.
ReduceRaise ==
    /\ pc = "reduce"
    /\ reduce(mapped_dictionaries).raised # ""
    /\ exception' = reduce(mapped_dictionaries).raised
    /\ pc' = "raising"
    /\ UNCHANGED <<chunk_size, prefs, process_file_locals, main_locals,
                   output>>

\* The with block of the pool is left by an exception: shutdown waits for
\* the jobs still queued or running, then the exception leaves main.
PoolExitRaise ==
    /\ pc = "raising"
    /\ \A i \in DOMAIN routines : finished(routines[i])
    /\ pc' = "aborted"
    /\ UNCHANGED <<chunk_size, prefs, process_file_locals, main_locals,
                   output, exception>>

\* return consolidated_dictionary, to the await of main that called.
ReturnLogs ==
    /\ pc = "return"
    /\ prefs = "LogPrefs"
    /\ processed_logs' = consolidated_dictionary
    /\ prefs' = "LookupPrefs"
    /\ pc' = "open"
    /\ logs' = << >>
    /\ routines' = << >>
    /\ mapped_dictionaries' = << >>
    /\ consolidated_dictionary' = None
    /\ UNCHANGED <<chunk_size, lookup_table, tag2count, output, exception>>

ReturnLookup ==
    /\ pc = "return"
    /\ prefs = "LookupPrefs"
    /\ lookup_table' = consolidated_dictionary
    /\ pc' = "get_tag_count"
    /\ UNCHANGED <<chunk_size, prefs, process_file_locals, processed_logs,
                   tag2count, output, exception>>

(***************************************************************************)
(* main, after its two awaits.                                             *)
(***************************************************************************)
GetTagCount ==
    /\ pc = "get_tag_count"
    /\ tag2count' = get_tag_count(processed_logs, lookup_table)
    /\ pc' = "write_portprotocolcount"
    /\ UNCHANGED <<chunk_size, prefs, process_file_locals, processed_logs,
                   lookup_table, output, exception>>

\* write_to_csv(data, ..., name, ...): one row per item of data.
write_to_csv(files, data, name) ==
    [n \in DOMAIN files \cup {name} |->
        IF n = name THEN data.items ELSE files[n]]

WritePortProtocolCount ==
    /\ pc = "write_portprotocolcount"
    /\ output' = write_to_csv(output, processed_logs, "portprotocolcount")
    /\ pc' = "write_tag2count"
    /\ UNCHANGED <<chunk_size, prefs, process_file_locals, main_locals,
                   exception>>

WriteTag2Count ==
    /\ pc = "write_tag2count"
    /\ output' = write_to_csv(output, tag2count, "tag2count")
    /\ pc' = "done"
    /\ UNCHANGED <<chunk_size, prefs, process_file_locals, main_locals,
                   exception>>

Next ==
    \/ Open
    \/ OpenMissing
    \/ Submit
    \/ Await
    \/ \E i \in DOMAIN routines : WorkerStart(i)
    \/ \E i \in DOMAIN routines : WorkerFinish(i)
    \/ GatherReturn
    \/ GatherRaise
    \/ Reduce
    \/ ReduceRaise
    \/ PoolExitRaise
    \/ ReturnLogs
    \/ ReturnLookup
    \/ GetTagCount
    \/ WritePortProtocolCount
    \/ WriteTag2Count

Spec == Init /\ [][Next]_vars

(***************************************************************************)
(* Properties.                                                             *)
(***************************************************************************)
FlowReduced == prefs = "LogPrefs" /\ pc = "return"

LookupReduced == prefs = "LookupPrefs" /\ pc = "return"

Reconciled == pc \in {"write_portprotocolcount", "write_tag2count", "done"}

\* C1: for a non-empty flow log and every chunk_size > 0, chunking, mapping
\* each batch and reducing with merge gives the FrequencyMap that one
\* process_entry over the whole log gives.
ChunkedEqualsWhole ==
    FlowReduced =>
        consolidated_dictionary = LogPrefs_process_entry(logs).value

\* Two batches counted the same key, and the reduce added them up.
ChunkedEqualsWholeWitness ==
    /\ FlowReduced
    /\ Len(mapped_dictionaries) >= 2
    /\ \E key \in DOMAIN mapped_dictionaries[1].items :
           /\ key \in DOMAIN mapped_dictionaries[2].items
           /\ consolidated_dictionary.items[key] >= 2

\* C2: the counts of the FrequencyMap process_file returns add up to the
\* number of lines of the flow log, whatever the chunk_size and the order
\* in which the workers finished.
SumEqualsLineCount ==
    FlowReduced => sum_values(consolidated_dictionary) = Len(logs)

\* Three lines in a full batch and a shorter last one.
SumEqualsLineCountWitness ==
    /\ FlowReduced
    /\ Len(logs) = 3
    /\ chunk_size = 2
    /\ sum_values(consolidated_dictionary) = 3

permuted(seq, p) == [i \in DOMAIN seq |-> seq[p[i]]]

\* The fold of merge over each permutation of the partial maps.
Folds ==
    {reduce(permuted(mapped_dictionaries, p)).value :
        p \in Permutations(DOMAIN mapped_dictionaries)}

RECURSIVE SumAt(_, _)
SumAt(dicts, key) ==
    IF dicts = << >>
    THEN 0
    ELSE get(Head(dicts), key, 0) + SumAt(Tail(dicts), key)

RECURSIVE ConcatAt(_, _)
ConcatAt(dicts, key) ==
    IF dicts = << >>
    THEN << >>
    ELSE get(Head(dicts), key, << >>) \o ConcatAt(Tail(dicts), key)

Occurrences(seq, x) == Cardinality({i \in DOMAIN seq : seq[i] = x})

SameBag(s, t) ==
    /\ Len(s) = Len(t)
    /\ \A x \in Range(s) \cup Range(t) : Occurrences(s, x) = Occurrences(t, x)

KeysOfAll(dicts) == UNION {DOMAIN dicts[i].items : i \in DOMAIN dicts}

\* C3 as stated: folding the partial maps of a run with merge in any
\* permutation gives the identical consolidated map, for both kinds of map.
MergeOrderIdentical ==
    pc = "return" => Folds = {consolidated_dictionary}

\* C3 as amended: the consolidated map sums the counts (FrequencyMap) or
\* concatenates the lists (LookupMap) at equal keys; every merge order gives
\* the identical FrequencyMap, and a LookupMap with the same tags whose
\* lists hold the same Keys as often, in an order that follows the merge.
MergeOrderUpToListOrder ==
    pc = "return" =>
        /\ DOMAIN consolidated_dictionary.items = KeysOfAll(mapped_dictionaries)
        /\ prefs = "LogPrefs" =>
               /\ \A key \in DOMAIN consolidated_dictionary.items :
                      consolidated_dictionary.items[key]
                          = SumAt(mapped_dictionaries, key)
               /\ Folds = {consolidated_dictionary}
        /\ prefs = "LookupPrefs" =>
               /\ \A tag \in DOMAIN consolidated_dictionary.items :
                      consolidated_dictionary.items[tag]
                          = ConcatAt(mapped_dictionaries, tag)
               /\ \A fold \in Folds :
                      /\ fold.factory = "list"
                      /\ DOMAIN fold.items
                             = DOMAIN consolidated_dictionary.items
                      /\ \A tag \in DOMAIN fold.items :
                             SameBag(fold.items[tag],
                                     consolidated_dictionary.items[tag])

\* Two batches of the lookup table list different Keys under one tag.
MergeOrderWitness ==
    /\ LookupReduced
    /\ Len(mapped_dictionaries) = 2
    /\ \E tag \in DOMAIN mapped_dictionaries[1].items :
           /\ tag \in DOMAIN mapped_dictionaries[2].items
           /\ mapped_dictionaries[1].items[tag]
                  # mapped_dictionaries[2].items[tag]

\* The sum, over the occurrences of Keys in a tag's list, of the Key's count
\* in the FrequencyMap, 0 for a Key it does not hold.
KeySum(tag) ==
    LET array == lookup_table.items[tag]
        Upto[n \in 0..Len(array)] ==
            IF n = 0
            THEN 0
            ELSE Upto[n - 1]
                 + (IF array[n] \in DOMAIN processed_logs.items
                    THEN processed_logs.items[array[n]]
                    ELSE 0)
    IN  Upto[Len(array)]

RECURSIVE KeySumOver(_)
KeySumOver(tags) ==
    IF tags = {}
    THEN 0
    ELSE LET tag == CHOOSE t \in tags : TRUE
         IN  KeySum(tag) + KeySumOver(tags \ {tag})

\* total - tagged_entries
Difference ==
    sum_values(processed_logs) - KeySumOver(DOMAIN lookup_table.items)

\* C4 as stated: get_tag_count returns, for each tag of the LookupMap, a
\* count equal to the sum over the Key occurrences of its list of the Key's
\* count in the FrequencyMap.
EveryTagHasItsSum ==
    Reconciled =>
        \A tag \in DOMAIN lookup_table.items :
            /\ tag \in DOMAIN tag2count.items
            /\ tag2count.items[tag] = KeySum(tag)

\* C4 as amended: a tag whose sum is not zero has that sum for its count,
\* a Key under several tags counting in full for each; a tag whose sum is
\* zero has no entry; and the tag "untagged" has total - tagged_entries for
\* its count whenever that difference is not zero.
EveryTagWithFlowsHasItsSum ==
    Reconciled =>
        \A tag \in DOMAIN lookup_table.items :
            IF tag = untagged /\ Difference # 0
            THEN /\ tag \in DOMAIN tag2count.items
                 /\ tag2count.items[tag] = Difference
            ELSE IF KeySum(tag) # 0
            THEN /\ tag \in DOMAIN tag2count.items
                 /\ tag2count.items[tag] = KeySum(tag)
            ELSE tag \notin DOMAIN tag2count.items

\* Two tags list one Key of the flow log, and each has its full count.
EveryTagWitness ==
    /\ Reconciled
    /\ \E t1, t2 \in DOMAIN lookup_table.items :
           /\ t1 # t2
           /\ t1 # untagged
           /\ t2 # untagged
           /\ \E key \in DOMAIN processed_logs.items :
                  /\ key \in Range(lookup_table.items[t1])
                  /\ key \in Range(lookup_table.items[t2])
                  /\ tag2count.items[t1] >= processed_logs.items[key]
                  /\ tag2count.items[t2] >= processed_logs.items[key]

\* C5: the entry "untagged" is in the TagCountMap exactly when
\* total - tagged_entries is greater than 0, its value is then that
\* difference, and every value of the TagCountMap is non-negative.  (A
\* lookup table that itself uses the tag "untagged" is set aside: the claim
\* is about the synthetic entry.)
UntaggedOnlyWhenPositive ==
    Reconciled =>
        /\ untagged \notin DOMAIN lookup_table.items =>
               /\ untagged \in DOMAIN tag2count.items <=> Difference > 0
               /\ untagged \in DOMAIN tag2count.items =>
                      tag2count.items[untagged] = Difference
        /\ \A tag \in DOMAIN tag2count.items : tag2count.items[tag] >= 0

\* process_file has read a file that holds no line.
EmptyFileRead ==
    /\ logs = << >>
    /\ pc \notin {"open", "submit", "gather", "reduce"}
    /\ exception # "FileNotFoundError"

\* C6: process_file of an empty file raises nothing and returns an empty
\* consolidated map.
EmptyFileYieldsEmptyMap ==
    EmptyFileRead =>
        /\ exception = ""
        /\ pc = "return"
        /\ consolidated_dictionary.factory # "None"
        /\ consolidated_dictionary.items = << >>

WorkerRaised ==
    \E i \in DOMAIN routines : routines[i].result.raised # ""

\* C7: once a worker has raised, the run never gets past the await of
\* gather: process_file returns nothing to main, no consolidated map is
\* built from the other batches, get_tag_count is not run and no output
\* file is written.
WorkerErrorAbortsRun ==
    WorkerRaised =>
        /\ pc \in {"submit", "gather", "raising", "aborted"}
        /\ mapped_dictionaries = << >>
        /\ consolidated_dictionary = None
        /\ prefs = "LogPrefs" => processed_logs = None
        /\ lookup_table = None
        /\ tag2count = None
        /\ DOMAIN output = {}

\* The lookup table had a batch that parsed and a batch that raised, after
\* the flow log had been reduced; the run ended with nothing written.
WorkerErrorAbortsRunWitness ==
    /\ pc = "aborted"
    /\ prefs = "LookupPrefs"
    /\ processed_logs # None
    /\ \E i, j \in DOMAIN routines :
           /\ routines[i].state = "failed"
           /\ routines[j].state = "done"
           /\ routines[j].result.value.items # << >>
    /\ DOMAIN output = {}

\* C8: the orchestrator awaits only once every batch of the file is
\* submitted, and reduce runs only once every submitted job is done.
BarrierBeforeReduce ==
    /\ pc \in {"gather", "reduce", "return"} =>
           Len(routines) = Len(chunk(logs, chunk_size))
    /\ pc \in {"reduce", "return"} =>
           \A i \in DOMAIN routines : routines[i].state = "done"
    /\ \A i \in DOMAIN routines :
           routines[i].state \in {"pending", "running"} =>
               /\ mapped_dictionaries = << >>
               /\ consolidated_dictionary = None

\* Several jobs, all done, and their maps merged.
BarrierBeforeReduceWitness ==
    /\ pc = "return"
    /\ Len(routines) >= 2
    /\ \A i \in DOMAIN routines : routines[i].state = "done"
    /\ consolidated_dictionary # None

RECURSIVE Concat(_)
Concat(seqs) ==
    IF seqs = << >> THEN << >> ELSE Head(seqs) \o Concat(Tail(seqs))

\* The batches submitted so far.
Batches == [i \in DOMAIN routines |-> routines[i].selection]

\* C9: the batches are contiguous slices that concatenate to the input;
\* there are ceil(N / chunk_size) of them, each of chunk_size lines but
\* possibly the last, of N mod chunk_size lines (chunk_size when that is 0);
\* none only when N = 0, and exactly one when chunk_size > N >= 1.
ChunkContract ==
    pc = "gather" =>
        LET N == Len(logs)
            count == Len(Batches)
        IN  /\ Concat(Batches) = logs
            /\ count * chunk_size >= N
            /\ (count - 1) * chunk_size < N \/ count = 0
            /\ \A i \in 1..(count - 1) : Len(Batches[i]) = chunk_size
            /\ count > 0 =>
                   Len(Batches[count]) =
                       IF N % chunk_size = 0 THEN chunk_size
                       ELSE N % chunk_size
            /\ count = 0 <=> N = 0
            /\ (chunk_size > N /\ N >= 1) => count = 1

\* Three lines in batches of two: a full batch and a last one of one line.
ChunkContractWitness ==
    /\ pc = "gather"
    /\ Len(logs) = 3
    /\ chunk_size = 2
    /\ Len(Batches) = 2
    /\ Len(Batches[2]) = 1

raw_tag(line) == split(strip(line), ",")[3]

raw_key(line) == <<split(strip(line), ",")[1], split(strip(line), ",")[2]>>

\* The Keys of the lines of a batch that are kept under a LookupMap key.
KeysUnder(selection, tag) ==
    LET kept == SelectSeq(selection,
                    LAMBDA line : raw_tag(line) # <<"t", "a", "g">>
                                  /\ lower(raw_tag(line)) = tag)
    IN  [n \in DOMAIN kept |-> raw_key(kept[n])]

\* C10: a worker of the lookup table skips exactly the lines whose raw
\* third field is "tag", wherever they are in the batch, and appends the Key
\* of every other line, as written, under the lower-cased tag; a raw tag
\* "Tag" is kept under the key "tag".
HeaderSkippedCaseSensitive ==
    \A i \in DOMAIN routines :
        (prefs = "LookupPrefs" /\ routines[i].state = "done") =>
            LET selection == routines[i].selection
                frequency == routines[i].result.value
            IN  /\ DOMAIN frequency.items =
                       {lower(raw_tag(selection[n])) :
                           n \in {m \in DOMAIN selection :
                                     raw_tag(selection[m]) # <<"t", "a", "g">>}}
                /\ \A tag \in DOMAIN frequency.items :
                       frequency.items[tag] = KeysUnder(selection, tag)
                /\ (\E n \in DOMAIN selection :
                        raw_tag(selection[n]) = <<"T", "a", "g">>)
                       => <<"t", "a", "g">> \in DOMAIN frequency.items

\* A batch of an entry tagged "Tag" followed by the header line.
HeaderSkippedWitness ==
    /\ prefs = "LookupPrefs"
    /\ \E i \in DOMAIN routines :
           /\ routines[i].state = "done"
           /\ Len(routines[i].selection) = 2
           /\ raw_tag(routines[i].selection[1]) = <<"T", "a", "g">>
           /\ raw_tag(routines[i].selection[2]) = <<"t", "a", "g">>
           /\ routines[i].result.value.items
                  = (<<"t", "a", "g">> :> << <<port80, tcp>> >>)

====
